---- MODULE Spec2Model ----
(***************************************************************************)
(* Model of tiny-imagenet-200.py: main() and the train()/test() loops it   *)
(* drives.  The networks, the datasets and the optimizer arithmetic are    *)
(* opaque: the parameters are a small integer that every optimizer step   *)
(* may set to any value, losses are non-negative integers determined by    *)
(* the parameters, and the learning rate is an exact rational num/den.     *)
(***************************************************************************)
EXTENDS Integers, Sequences, FiniteSets, TLC

\* ---------------------------------------------------------------- bounds
MaxEpochs == 2       \* --epochs is drawn from -1..MaxEpochs
MaxBatches == 3      \* only runs with at most this many training batches
MaxTestSize == 2     \* the val/ folder holds 1..MaxTestSize images
MaxParams == 2       \* the parameter vector is abstracted to 0..MaxParams-1
MaxPasses == 2       \* test() is called at most this often in a row on one model

\* ------------------------------------------------------ program constants
FlushThreshold == 2000   \* train(): processed_samples > 2000
NumClasses == 200        \* num_classes=200 of every wrapper class
GammaNum == 7            \* StepLR(gamma=0.7)
GammaDen == 10
StepSize == 1            \* StepLR(step_size=1)

\* ---------------------------------------------------------------- helpers
RECURSIVE SumSeq(_)
SumSeq(s) == IF s = <<>> THEN 0 ELSE Head(s) + SumSeq(Tail(s))

RECURSIVE Pow(_, _)
Pow(b, n) == IF n = 0 THEN 1 ELSE b * Pow(b, n - 1)

Min(a, b) == IF a < b THEN a ELSE b

\* variant: the resnet34 wrapper loads the resnet18 architecture
MODEL_MAP_Copied ==
    [k \in {"resnet18", "resnet34", "resnet50", "resnet101", "resnet152"} |->
        [arch |-> IF k = "resnet34" THEN "resnet18" ELSE k, pretrained |-> FALSE,
         num_classes |-> NumClasses]]

\* the registry: key -> the hub architecture its wrapper class loads
MODEL_MAP ==
    [k \in {"resnet18", "resnet34", "resnet50", "resnet101", "resnet152"} |->
        [arch |-> k, pretrained |-> FALSE, num_classes |-> NumClasses]]

\* names a user may type for --model: the five keys and one that is not a key
ModelNames == DOMAIN MODEL_MAP \cup {"vgg16"}

\* len(DataLoader) with drop_last=False: ceil(n / bs)
LoaderLen(n, bs) == (n + bs - 1) \div bs

\* len(data) of batch number idx (0-based) of a loader over n samples
BatchLen(n, bs, idx) == Min(bs, n - idx * bs)

TrainBatchSizes == {0, 1000, 2000, 2001}
TrainSetSizes == {1, 2001, 3001, 4002}
\* --lr values, in tenths
LrTenths == {-1, 0, 1}
TestBatchSizes == {0, 1, 2}

\* the command lines considered: every flag value argparse's type= accepts
Argv ==
    { a \in [model : ModelNames, no_cuda : BOOLEAN, epochs : -1..MaxEpochs,
             batch_size : TrainBatchSizes, test_batch_size : TestBatchSizes,
             lr : [num : LrTenths, den : {10}]] : TRUE }

\* the class index ImageFolder gives image x, and the model's arg-max for it
Target(x) == (x * 67) % NumClasses
Predict(p, x) == IF (p + x) % 2 = 0 THEN Target(x) ELSE (Target(x) + 1) % NumClasses
\* the summed cross-entropy of a set of validation images under parameters p
SampleLoss(p, x) == IF Predict(p, x) = Target(x) THEN 1 ELSE 3

Perms(S) == { f \in [1..Cardinality(S) -> S] : \A i, j \in 1..Cardinality(S) : f[i] = f[j] => i = j }

VARIABLES
    argv,            \* sys.argv as typed
    cuda_available,  \* torch.cuda.is_available()
    train_size,      \* number of images under data/train
    test_size,       \* number of images under data/val
    pc,              \* position in main()/train()/test()
    args,            \* parsed namespace
    environ,         \* os.environ entries set by main
    use_cuda,
    cudnn,           \* torch.backends.cudnn flags
    seeded,          \* how many times each random source was seeded
    train_kwargs, test_kwargs,
    built,           \* objects constructed so far
    train_loader, test_loader,
    model,           \* [arch, num_classes, params, training]
    optimizer,       \* [lr, steps, grads]
    scheduler,       \* [last_epoch, base_lr]
    epoch,
    training_loss_sum, processed_samples, batch_idx,   \* locals of train()
    pbar,            \* [total, n, updates, postfix]
    loss_log,        \* history: <<loss, len(data)>> of each batch of this epoch
    test_loss, correct, test_iter,                     \* locals of test()
    consumed,        \* history: validation images seen in this pass, in order
    stdout,          \* the evaluation summary lines printed so far
    calls            \* history: [train_started, train_done, test_started, test_done]

vars == << argv, cuda_available, train_size, test_size, pc, args, environ, use_cuda,
           cudnn, seeded, train_kwargs, test_kwargs, built, train_loader, test_loader,
           model, optimizer, scheduler, epoch, training_loss_sum, processed_samples,
           batch_idx, pbar, loss_log, test_loss, correct, test_iter, consumed, stdout,
           calls >>

NoArgs == [model |-> "", no_cuda |-> FALSE, epochs |-> 0, batch_size |-> 0,
           test_batch_size |-> 0, lr |-> [num |-> 0, den |-> 1]]
NoLoader == [size |-> 0, batch_size |-> 0, shuffle |-> FALSE, num_workers |-> 0,
             pin_memory |-> FALSE]
NoModel == [arch |-> "", num_classes |-> 0, params |-> 0, training |-> TRUE]
NoPbar == [total |-> 0, n |-> 0, updates |-> <<>>, postfix |-> <<0, 1>>]
SeedSources == {"torch", "torch.cuda", "random", "numpy"}

Init ==
    /\ argv \in Argv
    /\ cuda_available \in BOOLEAN
    /\ train_size \in TrainSetSizes
    /\ test_size \in 1..MaxTestSize
    /\ (argv.batch_size > 0 => LoaderLen(train_size, argv.batch_size) <= MaxBatches)
    /\ pc = "start"
    /\ args = NoArgs
    /\ environ = {}
    /\ use_cuda = FALSE
    /\ cudnn = [deterministic |-> FALSE, benchmark |-> FALSE]
    /\ seeded = [s \in SeedSources |-> 0]
    /\ train_kwargs = [batch_size |-> 0, shuffle |-> FALSE, num_workers |-> 0, pin_memory |-> FALSE]
    /\ test_kwargs = [batch_size |-> 0, shuffle |-> FALSE, num_workers |-> 0, pin_memory |-> FALSE]
    /\ built = {}
    /\ train_loader = NoLoader
    /\ test_loader = NoLoader
    /\ model = NoModel
    /\ optimizer = [lr |-> [num |-> 0, den |-> 1], steps |-> 0, grads |-> FALSE]
    /\ scheduler = [last_epoch |-> -1, base_lr |-> [num |-> 0, den |-> 1]]
    /\ epoch = 0
    /\ training_loss_sum = 0
    /\ processed_samples = 0
    /\ batch_idx = 0
    /\ pbar = NoPbar
    /\ loss_log = <<>>
    /\ test_loss = 0
    /\ correct = 0
    /\ test_iter = <<>>
    /\ consumed = <<>>
    /\ stdout = <<>>
    /\ calls = [train_started |-> 0, train_done |-> 0, test_started |-> 0, test_done |-> 0]

\* ------------------------------------------------------------ main(): setup
\* lines 133-147: parse_args; choices=MODEL_MAP.keys() rejects any other name
ParseArgs ==
    /\ pc = "start"
    /\ IF argv.model \in DOMAIN MODEL_MAP
         THEN /\ args' = argv
              /\ pc' = "select_device"
         ELSE /\ args' = args
              /\ pc' = "usage_error"
    /\ UNCHANGED << argv, cuda_available, train_size, test_size, environ, use_cuda,
           cudnn, seeded, train_kwargs, test_kwargs, built, train_loader, test_loader,
           model, optimizer, scheduler, epoch, training_loss_sum, processed_samples,
           batch_idx, pbar, loss_log, test_loss, correct, test_iter, consumed, stdout,
           calls >>

\* lines 149-153
SelectDevice ==
    /\ pc = "select_device"
    /\ environ' = {"CUDA_DEVICE_ORDER", "CUDA_VISIBLE_DEVICES"}
    /\ use_cuda' = (~args.no_cuda /\ cuda_available)
    /\ pc' = "seed"
    /\ UNCHANGED << argv, cuda_available, train_size, test_size, args,
           cudnn, seeded, train_kwargs, test_kwargs, built, train_loader, test_loader,
           model, optimizer, scheduler, epoch, training_loss_sum, processed_samples,
           batch_idx, pbar, loss_log, test_loss, correct, test_iter, consumed, stdout,
           calls >>

\* variant: numpy's generator is left unseeded
SeedAll_NoNumpy ==
    /\ pc = "seed"
    /\ cudnn' = [deterministic |-> TRUE, benchmark |-> FALSE]
    /\ seeded' = [s \in SeedSources |-> IF s = "numpy" THEN seeded[s] ELSE seeded[s] + 1]
    /\ pc' = "kwargs"
    /\ UNCHANGED << argv, cuda_available, train_size, test_size, args, environ, use_cuda,
           train_kwargs, test_kwargs, built, train_loader, test_loader,
           model, optimizer, scheduler, epoch, training_loss_sum, processed_samples,
           batch_idx, pbar, loss_log, test_loss, correct, test_iter, consumed, stdout,
           calls >>

\* lines 155-161
SeedAll ==
    /\ pc = "seed"
    /\ cudnn' = [deterministic |-> TRUE, benchmark |-> FALSE]
    /\ seeded' = [s \in SeedSources |-> seeded[s] + 1]
    /\ pc' = "kwargs"
    /\ UNCHANGED << argv, cuda_available, train_size, test_size, args, environ, use_cuda,
           train_kwargs, test_kwargs, built, train_loader, test_loader,
           model, optimizer, scheduler, epoch, training_loss_sum, processed_samples,
           batch_idx, pbar, loss_log, test_loss, correct, test_iter, consumed, stdout,
           calls >>

\* lines 167-174: cuda_kwargs, shuffle included, goes into both dicts
BuildKwargs ==
    /\ pc = "kwargs"
    /\ LET cuda_kwargs == [num_workers |-> 2, pin_memory |-> TRUE, shuffle |-> TRUE]
           plain(bs) == [batch_size |-> bs, shuffle |-> FALSE, num_workers |-> 0,
                         pin_memory |-> FALSE]
           updated(bs) == [batch_size |-> bs, shuffle |-> cuda_kwargs.shuffle,
                           num_workers |-> cuda_kwargs.num_workers,
                           pin_memory |-> cuda_kwargs.pin_memory]
       IN  IF use_cuda
             THEN /\ train_kwargs' = updated(args.batch_size)
                  /\ test_kwargs' = updated(args.test_batch_size)
             ELSE /\ train_kwargs' = plain(args.batch_size)
                  /\ test_kwargs' = plain(args.test_batch_size)
    /\ pc' = "datasets"
    /\ UNCHANGED << argv, cuda_available, train_size, test_size, args, environ, use_cuda,
           cudnn, seeded, built, train_loader, test_loader,
           model, optimizer, scheduler, epoch, training_loss_sum, processed_samples,
           batch_idx, pbar, loss_log, test_loss, correct, test_iter, consumed, stdout,
           calls >>

\* lines 179-194
BuildDatasets ==
    /\ pc = "datasets"
    /\ built' = built \cup {"train_set", "test_set"}
    /\ pc' = "loaders"
    /\ UNCHANGED << argv, cuda_available, train_size, test_size, args, environ, use_cuda,
           cudnn, seeded, train_kwargs, test_kwargs, train_loader, test_loader,
           model, optimizer, scheduler, epoch, training_loss_sum, processed_samples,
           batch_idx, pbar, loss_log, test_loss, correct, test_iter, consumed, stdout,
           calls >>

\* lines 196-197: DataLoader raises ValueError on a batch_size <= 0
BuildLoaders ==
    /\ pc = "loaders"
    /\ IF train_kwargs.batch_size <= 0
         THEN /\ pc' = "crashed"
              /\ UNCHANGED << built, train_loader, test_loader >>
         ELSE /\ train_loader' = [size |-> train_size, batch_size |-> train_kwargs.batch_size,
                                  shuffle |-> train_kwargs.shuffle,
                                  num_workers |-> train_kwargs.num_workers,
                                  pin_memory |-> train_kwargs.pin_memory]
              /\ IF test_kwargs.batch_size <= 0
                   THEN /\ pc' = "crashed"
                        /\ built' = built \cup {"train_loader"}
                        /\ UNCHANGED test_loader
                   ELSE /\ test_loader' = [size |-> test_size, batch_size |-> test_kwargs.batch_size,
                                           shuffle |-> test_kwargs.shuffle,
                                           num_workers |-> test_kwargs.num_workers,
                                           pin_memory |-> test_kwargs.pin_memory]
                        /\ built' = built \cup {"train_loader", "test_loader"}
                        /\ pc' = "model"
    /\ UNCHANGED << argv, cuda_available, train_size, test_size, args, environ, use_cuda,
           cudnn, seeded, train_kwargs, test_kwargs,
           model, optimizer, scheduler, epoch, training_loss_sum, processed_samples,
           batch_idx, pbar, loss_log, test_loss, correct, test_iter, consumed, stdout,
           calls >>

\* line 199: the freshly initialised parameters are whatever the seeded
\* generator yields
BuildModel ==
    /\ pc = "model"
    /\ \E p \in 0..(MaxParams - 1) :
         model' = [arch |-> MODEL_MAP[args.model].arch,
                   num_classes |-> MODEL_MAP[args.model].num_classes,
                   params |-> p, training |-> TRUE]
    /\ built' = built \cup {"model"}
    /\ pc' = "optimizer"
    /\ UNCHANGED << argv, cuda_available, train_size, test_size, args, environ, use_cuda,
           cudnn, seeded, train_kwargs, test_kwargs, train_loader, test_loader,
           optimizer, scheduler, epoch, training_loss_sum, processed_samples,
           batch_idx, pbar, loss_log, test_loss, correct, test_iter, consumed, stdout,
           calls >>

\* lines 200-202: Adadelta raises ValueError on lr < 0; StepLR's constructor
\* takes its initial step (last_epoch becomes 0, the rate stays the base rate)
BuildOptimizer ==
    /\ pc = "optimizer"
    /\ IF args.lr.num < 0
         THEN /\ pc' = "crashed"
              /\ UNCHANGED << built, optimizer, scheduler >>
         ELSE /\ optimizer' = [lr |-> args.lr, steps |-> 0, grads |-> FALSE]
              /\ scheduler' = [last_epoch |-> 0, base_lr |-> args.lr]
              /\ built' = built \cup {"optimizer", "scheduler"}
              /\ pc' = "epoch_loop"
    /\ epoch' = 0
    /\ UNCHANGED << argv, cuda_available, train_size, test_size, args, environ, use_cuda,
           cudnn, seeded, train_kwargs, test_kwargs, train_loader, test_loader,
           model, training_loss_sum, processed_samples,
           batch_idx, pbar, loss_log, test_loss, correct, test_iter, consumed, stdout,
           calls >>

\* variant: range(1, args.epochs) runs one epoch too few
EpochLoop_OneShort ==
    /\ pc = "epoch_loop"
    /\ IF epoch + 1 < args.epochs
         THEN /\ epoch' = epoch + 1
              /\ pc' = "train_call"
         ELSE /\ epoch' = epoch
              /\ pc' = "done"
    /\ UNCHANGED << argv, cuda_available, train_size, test_size, args, environ, use_cuda,
           cudnn, seeded, train_kwargs, test_kwargs, built, train_loader, test_loader,
           model, optimizer, scheduler, training_loss_sum, processed_samples,
           batch_idx, pbar, loss_log, test_loss, correct, test_iter, consumed, stdout,
           calls >>

\* --------------------------------------------------------- main(): epochs
\* lines 204-205: for epoch in range(1, args.epochs + 1)
EpochLoop ==
    /\ pc = "epoch_loop"
    /\ IF epoch + 1 <= args.epochs
         THEN /\ epoch' = epoch + 1
              /\ pc' = "train_call"
         ELSE /\ epoch' = epoch
              /\ pc' = "done"
    /\ UNCHANGED << argv, cuda_available, train_size, test_size, args, environ, use_cuda,
           cudnn, seeded, train_kwargs, test_kwargs, built, train_loader, test_loader,
           model, optimizer, scheduler, training_loss_sum, processed_samples,
           batch_idx, pbar, loss_log, test_loss, correct, test_iter, consumed, stdout,
           calls >>

\* ------------------------------------------------------------------ train()
\* criterion(model(data), target) with reduction='sum' for a batch of n images
\* under parameters p: opaque, non-negative
BatchLoss(p, n) == n * p

\* lines 88-92
TrainEnter ==
    /\ pc = "train_call"
    /\ model' = [model EXCEPT !.training = TRUE]
    /\ pbar' = [total |-> train_loader.size, n |-> 0, updates |-> <<>>, postfix |-> <<0, 1>>]
    /\ training_loss_sum' = 0
    /\ processed_samples' = 0
    /\ batch_idx' = 0
    /\ loss_log' = <<>>
    /\ calls' = [calls EXCEPT !.train_started = @ + 1]
    /\ pc' = "train_loop"
    /\ UNCHANGED << argv, cuda_available, train_size, test_size, args, environ, use_cuda,
           cudnn, seeded, train_kwargs, test_kwargs, built, train_loader, test_loader,
           optimizer, scheduler, epoch, test_loss, correct, test_iter, consumed, stdout >>

\* variant: the threshold test is >= instead of >
FlushDue_AtThreshold(processed, idx, nbatches) ==
    processed >= FlushThreshold \/ idx = nbatches - 1

\* variant: the last batch is not flushed on its own
FlushDue_NoLast(processed, idx, nbatches) == processed > FlushThreshold

\* line 102
FlushDue(processed, idx, nbatches) == processed > FlushThreshold \/ idx = nbatches - 1

\* lines 93-105: one iteration of the batch loop
TrainBatch ==
    /\ pc = "train_loop"
    /\ batch_idx < LoaderLen(train_loader.size, train_loader.batch_size)
    /\ LET len_data == BatchLen(train_loader.size, train_loader.batch_size, batch_idx)
           processed == processed_samples + len_data
           loss == BatchLoss(model.params, len_data)
       IN  \E p \in 0..(MaxParams - 1) :
             /\ model' = [model EXCEPT !.params = p]
             /\ optimizer' = [optimizer EXCEPT !.steps = @ + 1, !.grads = TRUE]
             /\ training_loss_sum' = training_loss_sum + loss
             /\ loss_log' = Append(loss_log, <<loss, len_data>>)
             /\ IF FlushDue(processed, batch_idx,
                            LoaderLen(train_loader.size, train_loader.batch_size))
                  THEN /\ pbar' = [pbar EXCEPT !.n = @ + processed,
                                               !.updates = Append(@, processed),
                                               !.postfix = <<loss, len_data>>]
                       /\ processed_samples' = 0
                  ELSE /\ pbar' = pbar
                       /\ processed_samples' = processed
    /\ batch_idx' = batch_idx + 1
    /\ UNCHANGED << argv, cuda_available, train_size, test_size, pc, args, environ, use_cuda,
           cudnn, seeded, train_kwargs, test_kwargs, built, train_loader, test_loader,
           scheduler, epoch, test_loss, correct, test_iter, consumed, stdout, calls >>

\* variant: the sum is divided by the number of batches
EpochMeanLoss_PerBatch(loss_sum, loader) ==
    << loss_sum, LoaderLen(loader.size, loader.batch_size) >>

\* line 106: the epoch's average loss, as numerator and denominator
EpochMeanLoss(loss_sum, loader) == << loss_sum, loader.size >>

TrainEnd ==
    /\ pc = "train_loop"
    /\ batch_idx = LoaderLen(train_loader.size, train_loader.batch_size)
    /\ pbar' = [pbar EXCEPT !.postfix = EpochMeanLoss(training_loss_sum, train_loader)]
    /\ pc' = "train_close"
    /\ UNCHANGED << argv, cuda_available, train_size, test_size, args, environ, use_cuda,
           cudnn, seeded, train_kwargs, test_kwargs, built, train_loader, test_loader,
           model, optimizer, scheduler, epoch, training_loss_sum, processed_samples,
           batch_idx, loss_log, test_loss, correct, test_iter, consumed, stdout, calls >>

\* lines 107-108: the bar is closed and train() returns; its locals are gone
TrainExit ==
    /\ pc = "train_close"
    /\ pbar' = NoPbar
    /\ training_loss_sum' = 0
    /\ processed_samples' = 0
    /\ batch_idx' = 0
    /\ loss_log' = <<>>
    /\ calls' = [calls EXCEPT !.train_done = @ + 1]
    /\ pc' = "test_call"
    /\ UNCHANGED << argv, cuda_available, train_size, test_size, args, environ, use_cuda,
           cudnn, seeded, train_kwargs, test_kwargs, built, train_loader, test_loader,
           model, optimizer, scheduler, epoch, test_loss, correct, test_iter, consumed,
           stdout >>

\* ------------------------------------------------------------------- test()
\* the order in which a loader over n images yields them
SampleOrders(n, shuffle) ==
    IF shuffle THEN Perms(1..n) ELSE { [i \in 1..n |-> i] }

RECURSIVE SumLoss(_, _)
SumLoss(p, xs) == IF xs = <<>> THEN 0 ELSE SampleLoss(p, Head(xs)) + SumLoss(p, Tail(xs))

\* pred.eq(target).sum() over one batch
CountCorrect(p, xs) == Cardinality({ i \in 1..Len(xs) : Predict(p, xs[i]) = Target(xs[i]) })

\* lines 111-116: eval mode, zeroed accumulators, a fresh iterator
TestEnter ==
    /\ pc = "test_call"
    /\ model' = [model EXCEPT !.training = FALSE]
    /\ test_loss' = 0
    /\ correct' = 0
    /\ test_iter' \in SampleOrders(test_loader.size, test_loader.shuffle)
    /\ consumed' = <<>>
    /\ calls' = [calls EXCEPT !.test_started = @ + 1]
    /\ pc' = "test_loop"
    /\ UNCHANGED << argv, cuda_available, train_size, test_size, args, environ, use_cuda,
           cudnn, seeded, train_kwargs, test_kwargs, built, train_loader, test_loader,
           optimizer, scheduler, epoch, training_loss_sum, processed_samples,
           batch_idx, pbar, loss_log, stdout >>

\* variant: the evaluation batch also updates the weights
TestBatch_Updates ==
    /\ pc = "test_loop"
    /\ test_iter # <<>>
    /\ LET k == Min(test_loader.batch_size, Len(test_iter))
           data == SubSeq(test_iter, 1, k)
       IN  /\ test_loss' = test_loss + SumLoss(model.params, data)
           /\ correct' = correct + CountCorrect(model.params, data)
           /\ consumed' = consumed \o data
           /\ test_iter' = SubSeq(test_iter, k + 1, Len(test_iter))
    /\ model' = [model EXCEPT !.params = (@ + 1) % MaxParams]
    /\ optimizer' = [optimizer EXCEPT !.steps = @ + 1, !.grads = TRUE]
    /\ UNCHANGED << argv, cuda_available, train_size, test_size, pc, args, environ, use_cuda,
           cudnn, seeded, train_kwargs, test_kwargs, built, train_loader, test_loader,
           scheduler, epoch, training_loss_sum, processed_samples,
           batch_idx, pbar, loss_log, stdout, calls >>

\* lines 116-121: one batch under no_grad
TestBatch ==
    /\ pc = "test_loop"
    /\ test_iter # <<>>
    /\ LET k == Min(test_loader.batch_size, Len(test_iter))
           data == SubSeq(test_iter, 1, k)
       IN  /\ test_loss' = test_loss + SumLoss(model.params, data)
           /\ correct' = correct + CountCorrect(model.params, data)
           /\ consumed' = consumed \o data
           /\ test_iter' = SubSeq(test_iter, k + 1, Len(test_iter))
    /\ UNCHANGED << argv, cuda_available, train_size, test_size, pc, args, environ, use_cuda,
           cudnn, seeded, train_kwargs, test_kwargs, built, train_loader, test_loader,
           model, optimizer, scheduler, epoch, training_loss_sum, processed_samples,
           batch_idx, pbar, loss_log, stdout, calls >>

\* lines 123-128: the summary line
TestEnd ==
    /\ pc = "test_loop"
    /\ test_iter = <<>>
    /\ stdout' = Append(stdout, [loss |-> << test_loss, test_loader.size >>,
                                 correct |-> correct, total |-> test_loader.size])
    /\ pc' = "test_close"
    /\ UNCHANGED << argv, cuda_available, train_size, test_size, args, environ, use_cuda,
           cudnn, seeded, train_kwargs, test_kwargs, built, train_loader, test_loader,
           model, optimizer, scheduler, epoch, training_loss_sum, processed_samples,
           batch_idx, pbar, loss_log, test_loss, correct, test_iter, consumed, calls >>

\* line 129 and the return
TestExit ==
    /\ pc = "test_close"
    /\ test_loss' = 0
    /\ correct' = 0
    /\ consumed' = <<>>
    /\ calls' = [calls EXCEPT !.test_done = @ + 1]
    /\ pc' = "sched"
    /\ UNCHANGED << argv, cuda_available, train_size, test_size, args, environ, use_cuda,
           cudnn, seeded, train_kwargs, test_kwargs, built, train_loader, test_loader,
           model, optimizer, scheduler, epoch, training_loss_sum, processed_samples,
           batch_idx, pbar, loss_log, test_iter, stdout >>

\* ------------------------------------------------------------ scheduler.step
\* StepLR.get_lr after last_epoch was advanced to e
StepLRRate(lr, e) ==
    IF e = 0 \/ e % StepSize # 0
      THEN lr
      ELSE [num |-> lr.num * GammaNum, den |-> lr.den * GammaDen]

\* line 208
SchedulerStep ==
    /\ pc = "sched"
    /\ scheduler' = [scheduler EXCEPT !.last_epoch = @ + 1]
    /\ optimizer' = [optimizer EXCEPT !.lr = StepLRRate(@, scheduler.last_epoch + 1)]
    /\ pc' = "epoch_loop"
    /\ UNCHANGED << argv, cuda_available, train_size, test_size, args, environ, use_cuda,
           cudnn, seeded, train_kwargs, test_kwargs, built, train_loader, test_loader,
           model, epoch, training_loss_sum, processed_samples,
           batch_idx, pbar, loss_log, test_loss, correct, test_iter, consumed, stdout,
           calls >>

Next ==
    \/ ParseArgs \/ SelectDevice \/ SeedAll \/ BuildKwargs \/ BuildDatasets
    \/ BuildLoaders \/ BuildModel \/ BuildOptimizer \/ EpochLoop
    \/ TrainEnter \/ TrainBatch \/ TrainEnd \/ TrainExit
    \/ TestEnter \/ TestBatch \/ TestEnd \/ TestExit
    \/ SchedulerStep

Spec == Init /\ [][Next]_vars

TypeOK == pc \in {"start", "usage_error", "select_device", "seed", "kwargs", "datasets",
                  "loaders", "model", "optimizer", "crashed", "epoch_loop", "train_call",
                  "train_loop", "train_close", "test_call", "test_loop", "test_close",
                  "sched", "done"}

\* ----------------------------------------- test() called on a built model
\* The state at line 207, for any model, validation folder and loader that
\* main() can have built, with test() then called MaxPasses times in a row.
InitEval ==
    /\ argv \in { a \in Argv : /\ a.model \in DOMAIN MODEL_MAP /\ a.epochs = 1
                               /\ a.batch_size = 2001 /\ a.test_batch_size > 0
                               /\ a.lr.num > 0 }
    /\ cuda_available \in BOOLEAN
    /\ train_size = 1
    /\ test_size \in 1..MaxTestSize
    /\ pc = "test_call"
    /\ args = argv
    /\ environ = {"CUDA_DEVICE_ORDER", "CUDA_VISIBLE_DEVICES"}
    /\ use_cuda = (~argv.no_cuda /\ cuda_available)
    /\ cudnn = [deterministic |-> TRUE, benchmark |-> FALSE]
    /\ seeded = [s \in SeedSources |-> 1]
    /\ train_kwargs = [batch_size |-> argv.batch_size, shuffle |-> use_cuda,
                       num_workers |-> IF use_cuda THEN 2 ELSE 0, pin_memory |-> use_cuda]
    /\ test_kwargs = [batch_size |-> argv.test_batch_size, shuffle |-> use_cuda,
                      num_workers |-> IF use_cuda THEN 2 ELSE 0, pin_memory |-> use_cuda]
    /\ built = {"train_set", "test_set", "train_loader", "test_loader", "model",
                "optimizer", "scheduler"}
    /\ train_loader = [size |-> train_size, batch_size |-> argv.batch_size,
                       shuffle |-> use_cuda, num_workers |-> IF use_cuda THEN 2 ELSE 0,
                       pin_memory |-> use_cuda]
    /\ test_loader = [size |-> test_size, batch_size |-> argv.test_batch_size,
                      shuffle |-> use_cuda, num_workers |-> IF use_cuda THEN 2 ELSE 0,
                      pin_memory |-> use_cuda]
    /\ \E p \in 0..(MaxParams - 1) :
         model = [arch |-> MODEL_MAP[argv.model].arch,
                  num_classes |-> MODEL_MAP[argv.model].num_classes,
                  params |-> p, training |-> TRUE]
    /\ optimizer = [lr |-> argv.lr, steps |-> 1, grads |-> TRUE]
    /\ scheduler = [last_epoch |-> 0, base_lr |-> argv.lr]
    /\ epoch = 1
    /\ training_loss_sum = 0
    /\ processed_samples = 0
    /\ batch_idx = 0
    /\ pbar = NoPbar
    /\ loss_log = <<>>
    /\ test_loss = 0
    /\ correct = 0
    /\ test_iter = <<>>
    /\ consumed = <<>>
    /\ stdout = <<>>
    /\ calls = [train_started |-> 1, train_done |-> 1, test_started |-> 0, test_done |-> 0]

\* line 207 again, with nothing between the two calls
CallTest ==
    /\ pc = "sched"
    /\ calls.test_done < MaxPasses
    /\ pc' = "test_call"
    /\ UNCHANGED << argv, cuda_available, train_size, test_size, args, environ, use_cuda,
           cudnn, seeded, train_kwargs, test_kwargs, built, train_loader, test_loader,
           model, optimizer, scheduler, epoch, training_loss_sum, processed_samples,
           batch_idx, pbar, loss_log, test_loss, correct, test_iter, consumed, stdout,
           calls >>

NextEval == TestEnter \/ TestBatch \/ TestEnd \/ TestExit \/ CallTest

SpecEval == InitEval /\ [][NextEval]_vars

\* =================================================================== claims
LogLosses == [i \in 1..Len(loss_log) |-> loss_log[i][1]]
LogLens == [i \in 1..Len(loss_log) |-> loss_log[i][2]]
InvalidNumericFlag ==
    \/ argv.epochs <= 0 \/ argv.batch_size <= 0 \/ argv.test_batch_size <= 0
    \/ argv.lr.num <= 0
NothingRun ==
    /\ calls.train_started = 0 /\ calls.test_started = 0
    /\ scheduler.last_epoch <= 0

\* C1: with epochs = N >= 1 a finished run has done exactly N trainings, N
\* evaluations and N schedule steps; at no time are a training and an
\* evaluation both in progress, an evaluation starts only after its epoch's
\* training has returned, a schedule step is taken only after that epoch's
\* evaluation has returned, and the next training starts only after the step.
C1_EpochCyclesInOrder ==
    /\ calls.train_done <= calls.train_started
    /\ calls.train_started <= calls.train_done + 1
    /\ calls.test_done <= calls.test_started
    /\ calls.test_started <= calls.test_done + 1
    /\ ~(calls.train_started > calls.train_done /\ calls.test_started > calls.test_done)
    /\ calls.test_started <= calls.train_done
    /\ calls.train_started <= calls.test_done + 1
    /\ scheduler.last_epoch <= calls.test_done
    /\ calls.train_started <= scheduler.last_epoch + 1
    /\ (pc = "done" /\ args.epochs >= 1) =>
          /\ calls.train_done = args.epochs
          /\ calls.test_done = args.epochs
          /\ scheduler.last_epoch = args.epochs

C1_Witness ==
    /\ pc = "done" /\ args.epochs = MaxEpochs
    /\ calls.train_done = MaxEpochs /\ calls.test_done = MaxEpochs

\* C2: whenever the loaders exist, the training loader shuffles and the
\* evaluation loader does not, whether or not CUDA is used.
C2_TrainShuffledEvalNot ==
    {"train_loader", "test_loader"} \subseteq built =>
        /\ train_loader.shuffle = TRUE
        /\ test_loader.shuffle = FALSE

\* C3: no random source is ever seeded more than once, and once any dataset,
\* loader or model exists every source has been seeded and the cudnn flags
\* are deterministic=True, benchmark=False.
C3_SeededBeforeConstruction ==
    /\ \A s \in SeedSources : seeded[s] <= 1
    /\ built # {} =>
          /\ \A s \in SeedSources : seeded[s] = 1
          /\ cudnn.deterministic /\ ~cudnn.benchmark

C3_Witness ==
    /\ {"train_set", "test_set", "train_loader", "test_loader", "model"} \subseteq built
    /\ \A s \in SeedSources : seeded[s] = 1

\* C4: a model name outside the five keys stops the run in parse_args with
\* nothing built and nothing trained or evaluated; a name among the five is
\* never rejected and the model built for it is that architecture with 200
\* output classes.
C4_UnknownModelRejected ==
    /\ argv.model \notin {"resnet18", "resnet34", "resnet50", "resnet101", "resnet152"} =>
          /\ pc \in {"start", "usage_error"}
          /\ built = {}
          /\ NothingRun
    /\ argv.model \in {"resnet18", "resnet34", "resnet50", "resnet101", "resnet152"} =>
          /\ pc # "usage_error"
          /\ "model" \in built =>
                /\ model.arch = argv.model
                /\ model.num_classes = NumClasses

C4_Witness == pc = "usage_error" /\ argv.model = "vgg16" /\ built = {}

\* C5: with a non-positive epochs, batch_size, test_batch_size or lr the run
\* is stopped at startup: nothing is built or trained and the run never
\* reaches its normal end.
C5_InvalidFlagRejected ==
    InvalidNumericFlag =>
        /\ pc \in {"start", "usage_error"}
        /\ built = {}
        /\ NothingRun

EvalStepKeepsState ==
    pc \in {"test_call", "test_loop", "test_close"} =>
        /\ model'.params = model.params
        /\ optimizer' = optimizer
        /\ scheduler' = scheduler

\* C6: no step of test() changes the parameters, the optimizer or the
\* scheduler; when its loop is over every validation image has been consumed
\* exactly once; and a pass that follows another pass with no training in
\* between prints the same correct count and total.
C6_EvalHasNoSideEffects ==
    /\ [][EvalStepKeepsState]_vars
    /\ [](pc = "test_close" =>
            /\ Len(consumed) = test_size
            /\ \A x \in 1..test_size : Cardinality({i \in 1..Len(consumed) : consumed[i] = x}) = 1)
    /\ [](Len(stdout) >= 2 =>
            /\ stdout[Len(stdout)].correct = stdout[Len(stdout) - 1].correct
            /\ stdout[Len(stdout)].total = stdout[Len(stdout) - 1].total)

C6_Witness ==
    /\ pc = "test_close" /\ Len(stdout) = 2
    /\ test_size > test_loader.batch_size
    /\ test_loader.shuffle
    /\ stdout[2].correct > 0 /\ stdout[2].correct < test_size

\* C7: the figure set at the end of train() is the sum of the batches' summed
\* losses over the number of samples processed in the epoch, and that number
\* is the size of the training set.
C7_EpochMeanLossIsDatasetMean ==
    pc = "train_close" =>
        /\ pbar.postfix = << SumSeq(LogLosses), SumSeq(LogLens) >>
        /\ SumSeq(LogLens) = train_size

C7_Witness ==
    /\ pc = "train_close"
    /\ Len(loss_log) >= 3
    /\ loss_log[Len(loss_log)][2] < train_loader.batch_size
    /\ Len(pbar.updates) >= 2
    /\ SumSeq(LogLosses) > 0

RateStepNeverRaises ==
    "optimizer" \in built =>
        /\ optimizer'.lr.num * optimizer.lr.den <= optimizer.lr.num * optimizer'.lr.den
        /\ optimizer'.lr # optimizer.lr => pc = "sched"

\* C8: once the optimizer exists its rate is positive; between epochs, after
\* n completed epochs, it is lr * 0.7^n; no step raises it and only the
\* schedule step changes it.
C8_LearningRateDecays ==
    /\ []("optimizer" \in built =>
            /\ optimizer.lr.num > 0 /\ optimizer.lr.den > 0
            /\ pc \in {"epoch_loop", "done"} =>
                  optimizer.lr.num * (args.lr.den * Pow(GammaDen, epoch))
                      = (args.lr.num * Pow(GammaNum, epoch)) * optimizer.lr.den)
    /\ [][RateStepNeverRaises]_vars

BatchStepFlushesWhenDue ==
    (pc = "train_loop" /\ batch_idx' = batch_idx + 1) =>
        LET len_data == LogLens'[Len(loss_log')]
            pending == processed_samples + len_data
            is_last == SumSeq(LogLens') = train_size
            flushed == Len(pbar'.updates) = Len(pbar.updates) + 1
        IN  /\ flushed \/ pbar'.updates = pbar.updates
            /\ flushed <=> (pending > 2000 \/ is_last)
            /\ flushed => /\ pbar'.updates[Len(pbar'.updates)] = pending
                          /\ processed_samples' = 0
            /\ ~flushed => processed_samples' = pending

\* C9: a batch of train() is followed by a progress update exactly when the
\* samples processed since the last update exceed 2000 or the batch is the
\* epoch's last; the update is for exactly those samples and zeroes the
\* count, so every batch starts with at most 2000 samples not yet reported.
C9_ProgressFlushPolicy ==
    /\ [](pc = "train_loop" => processed_samples <= 2000)
    /\ [][BatchStepFlushesWhenDue]_vars

C9_Witness ==
    /\ pc = "train_loop" /\ batch_idx = 2
    /\ loss_log[1][2] = 2000
    /\ pbar.updates = << 4000 >>
    /\ processed_samples = 0
    /\ train_size > 4000

\* C10: during a training epoch the bar's count is the sum of the updates
\* made, never exceeds the bar's total, and together with the samples not yet
\* reported equals the samples processed so far; when the batches are
\* exhausted the count equals the size of the training set, which is the
\* bar's total, and nothing is left unreported.
C10_ProgressBarAccountsForEverySample ==
    pc \in {"train_loop", "train_close"} =>
        /\ pbar.total = train_size
        /\ pbar.n = SumSeq(pbar.updates)
        /\ pbar.n <= pbar.total
        /\ pbar.n + processed_samples = SumSeq(LogLens)
        /\ (pc = "train_close" \/ batch_idx = LoaderLen(train_size, args.batch_size)) =>
              /\ pbar.n = train_size
              /\ processed_samples = 0

C10_Witness ==
    /\ pc = "train_close"
    /\ Len(pbar.updates) = 2 /\ Len(loss_log) = 3
    /\ pbar.n = train_size
====
